---- MODULE Spec2Model ----
(***************************************************************************)
(* Model of src/debouncer.h: debounce(func, context, durationMs) and the   *)
(* wrapper lambda it returns, together with the parts of the host toolkit  *)
(* the wrapper drives (QObject property bag, QTimer, event loop, object    *)
(* destruction).  Time is counted in milliseconds, relative to the events  *)
(* that start a countdown.                                                 *)
(***************************************************************************)
EXTENDS Integers, Sequences, FiniteSets, TLC

\* ---------------------------------------------------------------- bounds
\* debounce() calls plus wrapper calls made in one run.
MaxOps == 4

\* ------------------------------------------------------- input universes
\* Template instantiations debounce<Func>: one per callable type.  "F" has a
\* by-value parameter (void(int)), "G" a reference parameter
\* (void(const T&)).
FuncTypes == {"F", "G"}
NullPtr == 0
Addrs == {1}
Durations == {-1, 0, 2}
\* Argument values are tokens: the k-th call of a wrapper passes k, so the
\* calls of one wrapper are told apart by what they pass.  Other is any
\* value that no call passed (an object the caller overwrote, or the bits a
\* dangling reference happens to read).
Other == 0
NoTimer == 0
\* History: "nothing received yet".
NoValue == -1

\* owner, props, timers: the toolkit's objects.  wrappers, debounce_counter:
\* the closures debounce() returned and its static counters.  crashed: how
\* the process ended, if it did.  hist: per wrapper, the history of its
\* calls and of the invocations of its func.
VARIABLES owner, props, timers, wrappers, debounce_counter, crashed, hist

vars == <<owner, props, timers, wrappers, debounce_counter, crashed, hist>>

\* ------------------------------------------------------------- helpers
Digit(d) == <<"0", "1", "2", "3", "4", "5", "6", "7", "8", "9">>[d + 1]

RECURSIVE to_string(_)
to_string(n) == IF n < 10 THEN <<Digit(n)>>
                ELSE to_string(n \div 10) \o <<Digit(n % 10)>>

\* "_debounce_timer_" + to_string(context) + "_" + to_string(counter)
TimerPropertyName(context, counter) ==
    <<"_debounce_timer_">> \o to_string(context) \o <<"_">> \o to_string(counter)

ParamKind(f) == IF f = "F" THEN "value" ELSE "ref"

\* QObject::property(name): the stored value, or an invalid QVariant whose
\* value<QObject*>() is null.
Property(a, name) ==
    IF \E p \in props[a] : p.name = name
    THEN (CHOOSE p \in props[a] : p.name = name).value
    ELSE NoTimer

\* QObject::setProperty(name, value) on a dynamic property.
SetProperty(bag, name, value) ==
    {p \in bag : p.name # name} \cup {[name |-> name, value |-> value]}

Max(a, b) == IF a > b THEN a ELSE b

RECURSIVE TotalCalls(_)
TotalCalls(h) == IF h = <<>> THEN 0 ELSE Head(h).calls + TotalCalls(Tail(h))

\* debounce() calls and wrapper calls made so far.
Ops == Len(wrappers) + TotalCalls(hist)

Running == [why |-> "no", context |-> NullPtr, durationMs |-> 0]

\* History of one wrapper.  calls: calls made (and so the argument of the
\* last call).  left: durationMs minus the time since the last call, -1 once more
\* than durationMs has passed (or before any call).  burst: every call so
\* far came less than durationMs after the previous one.  fired: invocations
\* of the wrapper's func.  firedThis: those that carried the tuple of the
\* last call.  got: the value the last invocation received.  born:
\* whether a timer existed when debounce() returned the wrapper.  reent:
\* the pending call was made by func itself, from inside its invocation.
NewHist ==
    [calls |-> 0, left |-> -1, burst |-> TRUE, fired |-> 0,
     firedThis |-> 0, got |-> NoValue, born |-> Len(timers) > 0,
     reent |-> FALSE]

\* ----------------------------------------------------------------- Init
Init ==
    /\ owner = [a \in Addrs |-> "alive"]
    /\ props = [a \in Addrs |-> {}]
    /\ timers = <<>>
    /\ wrappers = <<>>
    /\ debounce_counter = [f \in FuncTypes |-> 0]
    /\ crashed = Running
    /\ hist = <<>>

\* The process ends (a failed assert calls abort(), a wild access is
\* killed): every object of the program is gone with it.  context and
\* durationMs are the arguments of the debounce() call that asserted.
Abort(why, context, durationMs) ==
    /\ crashed' = [why |-> why, context |-> context, durationMs |-> durationMs]
    /\ owner' = [a \in Addrs |-> "gone"]
    /\ props' = [a \in Addrs |-> {}]
    /\ timers' = <<>>
    /\ wrappers' = <<>>
    /\ debounce_counter' = [f \in FuncTypes |-> 0]
    /\ hist' = <<>>

\* ------------------------------------------------------------- debounce
\* debounce() with the assertion on durationMs left out.
DebounceAssertsNoDuration(context, durationMs) ==
    IF context = NullPtr THEN "assert context" ELSE "no"

\* The two runtime assertions at the head of debounce(): "no" when both
\* pass, else the assertion that aborts the process.
DebounceAsserts(context, durationMs) ==
    IF context = NullPtr THEN "assert context"
    ELSE IF durationMs < 0 THEN "assert duration"
    ELSE "no"

\* The wrapper (closure) debounce() returns: its captures.
NewWrapper(f, context, durationMs) ==
    [ftype |-> f, context |-> context, durationMs |-> durationMs,
     timerPropertyName |-> TimerPropertyName(context, debounce_counter[f])]

\* debounce() creating the wrapper's timer right away.
DebounceEffectsEager(f, context, durationMs) ==
    /\ timers' = Append(timers, [parent |-> context, interval |-> durationMs,
                                 singleShot |-> TRUE, active |-> FALSE,
                                 remaining |-> 0, conns |-> <<>>,
                                 deleted |-> FALSE, creator |-> 0])
    /\ props' = [props EXCEPT ![context] =
                    SetProperty(props[context],
                                TimerPropertyName(context, debounce_counter[f]),
                                Len(timers) + 1)]
    /\ UNCHANGED owner

\* What debounce() does to the toolkit's objects: nothing.
DebounceEffects(f, context, durationMs) ==
    UNCHANGED <<owner, props, timers>>

Debounce(f, context, durationMs) ==
    /\ crashed.why = "no"
    /\ Ops < MaxOps
    /\ IF DebounceAsserts(context, durationMs) = "no"
       THEN /\ wrappers' = Append(wrappers, NewWrapper(f, context, durationMs))
            /\ debounce_counter' =
                   [debounce_counter EXCEPT ![f] = debounce_counter[f] + 1]
            /\ hist' = Append(hist, NewHist)
            /\ DebounceEffects(f, context, durationMs)
            /\ UNCHANGED crashed
       ELSE Abort(DebounceAsserts(context, durationMs), context, durationMs)

\* ------------------------------------------------------ wrapper invocation
\* new QTimer(context); setInterval(durationMs); setSingleShot(true).
\* remaining is the countdown of a running timer.  creator is a ghost field:
\* the wrapper whose call created the timer.
NewTimer(context, durationMs, w) ==
    [parent |-> context, interval |-> durationMs, singleShot |-> TRUE,
     active |-> FALSE, remaining |-> 0, conns |-> <<>>, deleted |-> FALSE,
     creator |-> w]

\* A deleted QTimer: nothing of it is left but its identity.
DeletedTimer ==
    [parent |-> NullPtr, interval |-> 0, singleShot |-> TRUE,
     active |-> FALSE, remaining |-> 0, conns |-> <<>>, deleted |-> TRUE,
     creator |-> 0]

\* The wrapper without its disconnect() call.
DisconnectNothing(conns) == conns

\* QObject::disconnect(timer, &QTimer::timeout, nullptr, nullptr): drops every
\* connection of the timeout signal.
Disconnect(conns) == <<>>

\* The tuple std::tuple<decltype(args)...> holds references: val and live are
\* the referent's current value and whether it still exists.  A by-value
\* parameter lives in the caller's frame (std::function::operator()) and is
\* gone when the wrapper returns.  call is a ghost field: which call of the
\* wrapper made the tuple.
Arguments(f, v) ==
    [val |-> v, live |-> (ParamKind(f) = "ref"), call |-> v]

\* QObject::connect(timer, &QTimer::timeout, context, lambda).
Connect(conns, w, context, arguments) ==
    Append(conns, [func |-> w, context |-> context, args |-> arguments])

\* QTimer::start(): (re)starts the countdown from the timer's interval; a
\* negative interval is refused by the toolkit and the timer stays inactive.
Start(t) ==
    IF t.interval < 0 THEN [t EXCEPT !.active = FALSE]
    ELSE [t EXCEPT !.active = TRUE, !.remaining = t.interval]

\* The timer the wrapper's lookup yields: the stored one, or a new one.
TimerFor(w) ==
    LET found == Property(wrappers[w].context, wrappers[w].timerPropertyName)
    IN IF found = NoTimer THEN Len(timers) + 1 ELSE found

\* A copy of the closure object W: the copy constructor copies each
\* capture (the shared_ptr to func, the context pointer, the duration and
\* the key string).
CopyOf(W) ==
    [ftype |-> W.ftype, context |-> W.context, durationMs |-> W.durationMs,
     timerPropertyName |-> W.timerPropertyName]

\* The closure through which the k-th call of a wrapper is made: calls
\* alternate between the object debounce() returned and a copy of it (the
\* one a signal connection holds), so any two consecutive calls come
\* through different copies.
Via(k) == k % 2
Closure(w, k) == IF Via(k) = 1 THEN wrappers[w] ELSE CopyOf(wrappers[w])

\* Body of the returned lambda, run through closure W of wrapper w against
\* a live object at context, with timers ts and properties ps.
InvokeIn(ts, ps, W, w, v) ==
    LET ctx == W.context
        name == W.timerPropertyName
        found == {p \in ps[ctx] : p.name = name}
        create == found = {}
        id == IF create THEN Len(ts) + 1 ELSE (CHOOSE p \in found : TRUE).value
        timers1 == IF create
                   THEN Append(ts, NewTimer(ctx, W.durationMs, w))
                   ELSE ts
        args == Arguments(W.ftype, v)
        t1 == [timers1[id] EXCEPT
                  !.conns = Connect(Disconnect(timers1[id].conns), w, ctx, args)]
    IN [timers |-> [timers1 EXCEPT ![id] = Start(t1)],
        props |-> IF create
                  THEN [ps EXCEPT ![ctx] = SetProperty(ps[ctx], name, id)]
                  ELSE ps]

\* A call of wrapper w from the program, in the current state.
Invoke(w, v) ==
    LET r == InvokeIn(timers, props, Closure(w, v), w, v)
    IN /\ timers' = r.timers
       /\ props' = r.props


\* History of a call of wrapper w.
Called(h, w) ==
    [h EXCEPT ![w] = [calls |-> h[w].calls + 1,
                      left |-> wrappers[w].durationMs,
                      burst |-> h[w].burst /\ (h[w].calls = 0 \/ h[w].left > 0),
                      fired |-> h[w].fired, firedThis |-> 0,
                      got |-> h[w].got, born |-> h[w].born,
                      reent |-> FALSE]]

\* The argument the next call of wrapper w passes.
NextArg(w) == hist[w].calls + 1

\* A call of wrapper w with argument v.  context is a raw pointer: once the
\* owner is destroyed the call dereferences freed memory (undefined
\* behaviour): it crashes, or does nothing visible, or, when the allocator
\* has handed the address to a new object, runs against that object.
Call(w, v, crash) ==
    /\ crashed.why = "no"
    /\ w \in 1..Len(wrappers)
    /\ Ops < MaxOps
    /\ v = NextArg(w)
    /\ crash => owner[wrappers[w].context] = "destroyed"
    /\ IF crash THEN Abort("ub", NullPtr, 0)
       ELSE /\ hist' = Called(hist, w)
            /\ IF owner[wrappers[w].context] = "destroyed"
               THEN UNCHANGED <<timers, props>>
               ELSE Invoke(w, v)
            /\ UNCHANGED <<owner, wrappers, debounce_counter, crashed>>

\* ------------------------------------------------------------ event loop
\* What std::apply(*shared_func, *args) passes to func for one connection:
\* the referent's value, or what a dangling reference reads: the bits the
\* referent left behind (u = TRUE) or anything else.
Delivered(c, u) ==
    IF c.args.live \/ u THEN c.args.val ELSE Other

\* History of one invocation of func through connection c.
Fired(h, c, u) ==
    [h EXCEPT ![c.func] =
        [@ EXCEPT !.fired = @ + 1,
                  !.firedThis = IF c.args.call = h[c.func].calls
                                THEN @ + 1 ELSE @,
                  !.got = Delivered(c, u),
                  !.reent = FALSE]]

\* The slots connected to timeout run in connection order.
RECURSIVE Emit(_, _, _)
Emit(h, conns, u) ==
    IF conns = <<>> THEN h
    ELSE Emit(Fired(h, Head(conns), u), Tail(conns), u)

\* A timer whose expiry also drops the connections of its timeout signal.
ExpiredCleared(t) == [t EXCEPT !.active = ~t.singleShot, !.conns = <<>>]

\* QTimer at expiry: a single-shot timer stops.  Nothing in the wrapper or
\* in the connected lambda disconnects the action, so it stays connected.
Expired(t) == [t EXCEPT !.active = ~t.singleShot]

\* One event-loop turn delivering the timeout of timer t: a single-shot
\* timer stops, then every connected slot runs.  The connection is kept.
\* Reading a dangling argument reference yields u or crashes.
Timeout(t, u, crash) ==
    /\ crashed.why = "no"
    /\ t \in 1..Len(timers)
    /\ timers[t].active /\ ~timers[t].deleted
    /\ timers[t].remaining = 0
    /\ LET dangling == \E i \in 1..Len(timers[t].conns) :
                           ~timers[t].conns[i].args.live
       IN /\ (~dangling => (u /\ ~crash))
          /\ (crash => u)
          /\ IF crash THEN Abort("ub", NullPtr, 0)
             ELSE /\ timers' = [timers EXCEPT ![t] = Expired(timers[t])]
                  /\ hist' = Emit(hist, timers[t].conns, u)
                  /\ UNCHANGED <<owner, props, wrappers, debounce_counter,
                                 crashed>>

\* The timeout of timer t is delivered and func, while it is being invoked,
\* calls its own wrapper.  QTimer stops a single-shot timer before it emits
\* timeout; the wrapper body then disconnects the running slot (the
\* toolkit keeps it until it returns), connects a new one, which this
\* emission does not invoke, and restarts the timer.
Reenter(t, u) ==
    /\ crashed.why = "no"
    /\ t \in 1..Len(timers)
    /\ timers[t].active /\ ~timers[t].deleted
    /\ timers[t].remaining = 0
    /\ Len(timers[t].conns) = 1
    /\ Ops < MaxOps
    /\ LET c == timers[t].conns[1]
           w == c.func
           invoked == Emit(hist, timers[t].conns, u)
           stopped == [timers EXCEPT ![t] = Expired(timers[t])]
           v == invoked[w].calls + 1
           r == InvokeIn(stopped, props, Closure(w, v), w, v)
       IN /\ c.args.live => u
          /\ hist' = [Called(invoked, w) EXCEPT ![w].reent = TRUE]
          /\ timers' = r.timers
          /\ props' = r.props
          /\ UNCHANGED <<owner, wrappers, debounce_counter, crashed>>

\* One millisecond passes (whether or not the event loop gets to run).
Tick ==
    /\ crashed.why = "no"
    /\ \/ \E w \in 1..Len(hist) : hist[w].left >= 0
       \/ \E t \in 1..Len(timers) : timers[t].active /\ timers[t].remaining > 0
    /\ hist' = [w \in 1..Len(hist) |->
                  [hist[w] EXCEPT !.left = Max(-1, @ - 1)]]
    /\ timers' = [t \in 1..Len(timers) |->
                    IF timers[t].active
                    THEN [timers[t] EXCEPT !.remaining = Max(0, @ - 1)]
                    ELSE timers[t]]
    /\ UNCHANGED <<owner, props, wrappers, debounce_counter, crashed>>

\* ~QObject(): the children (the timers) are deleted with the object, and
\* with them their connections; the property bag goes too.
DestroyOwner(a) ==
    /\ crashed.why = "no"
    /\ owner[a] = "alive"
    /\ owner' = [owner EXCEPT ![a] = "destroyed"]
    /\ props' = [props EXCEPT ![a] = {}]
    /\ timers' = [i \in 1..Len(timers) |->
                    IF timers[i].parent = a
                    THEN DeletedTimer
                    ELSE timers[i]]
    /\ UNCHANGED <<wrappers, debounce_counter, crashed, hist>>

\* The allocator places a new QObject at the address of a destroyed one.
ReuseAddress(a) ==
    /\ crashed.why = "no"
    /\ owner[a] = "destroyed"
    /\ owner' = [owner EXCEPT ![a] = "reused"]
    /\ UNCHANGED <<props, timers, wrappers, debounce_counter, crashed, hist>>

\* The caller assigns to the object a pending reference argument refers to.
ModifyArg(t) ==
    /\ crashed.why = "no"
    /\ t \in 1..Len(timers)
    /\ timers[t].active /\ Len(timers[t].conns) > 0
    /\ timers[t].conns[1].args.live
    /\ timers[t].conns[1].args.val # Other
    /\ timers' = [timers EXCEPT ![t].conns[1].args.val = Other]
    /\ UNCHANGED <<owner, props, wrappers, debounce_counter, crashed, hist>>

\* The caller destroys the object a pending reference argument refers to.
DestroyArg(t) ==
    /\ crashed.why = "no"
    /\ t \in 1..Len(timers)
    /\ timers[t].active /\ Len(timers[t].conns) > 0
    /\ timers[t].conns[1].args.live
    /\ timers' = [timers EXCEPT ![t].conns[1].args.live = FALSE]
    /\ UNCHANGED <<owner, props, wrappers, debounce_counter, crashed, hist>>

Next ==
    \/ \E f \in FuncTypes, c \in Addrs \cup {NullPtr}, d \in Durations :
          Debounce(f, c, d)
    \/ \E w \in 1..Len(wrappers), v \in 1..MaxOps, crash \in BOOLEAN :
          Call(w, v, crash)
    \/ \E t \in 1..Len(timers), u \in BOOLEAN, crash \in BOOLEAN :
          Timeout(t, u, crash)
    \/ \E t \in 1..Len(timers), u \in BOOLEAN : Reenter(t, u)
    \/ Tick
    \/ \E a \in Addrs : DestroyOwner(a)
    \/ \E a \in Addrs : ReuseAddress(a)
    \/ \E t \in 1..Len(timers) : ModifyArg(t)
    \/ \E t \in 1..Len(timers) : DestroyArg(t)

Spec == Init /\ [][Next]_vars

\* The event loop keeps running: time passes, and the timeout of every
\* timer that is due is eventually delivered.
FairSpec ==
    /\ Spec
    /\ WF_vars(Tick)
    /\ \A t \in 1..MaxOps :
          WF_vars(\E u \in BOOLEAN, crash \in BOOLEAN : Timeout(t, u, crash))

TypeOK ==
    /\ Ops <= MaxOps
    /\ Len(hist) = Len(wrappers)
    /\ Len(timers) <= TotalCalls(hist)

\* ------------------------------------------------------------ properties
Alive(w) == owner[wrappers[w].context] = "alive"

\* Wrapper w is called in this step.
CallOf(w) ==
    /\ w \in 1..Len(hist) /\ Len(hist') = Len(hist)
    /\ hist'[w].calls = hist[w].calls + 1

\* func of wrapper w is invoked in this step.
FiringOf(w) ==
    /\ w \in 1..Len(hist) /\ Len(hist') = Len(hist)
    /\ hist'[w].fired > hist[w].fired

RECURSIVE TotalFired(_)
TotalFired(h) == IF h = <<>> THEN 0 ELSE Head(h).fired + TotalFired(Tail(h))

\* The running timers of ts that carry an action of wrapper w.
Pending(w, ts) ==
    {t \in 1..Len(ts) :
        ts[t].active /\ \E i \in 1..Len(ts[t].conns) : ts[t].conns[i].func = w}

\* No timeout is overdue: the event loop has delivered every expiry.
LoopIdle == \A t \in 1..Len(timers) : ~(timers[t].active /\ timers[t].remaining = 0)

\* C1: Single firing per burst.  While the calls of a wrapper form a burst
\* (each less than durationMs after the previous) on a live owner, func has
\* been invoked at most once, and an invocation received the argument of
\* the last call.
C1_SingleFiringPerBurst ==
    \A w \in 1..Len(wrappers) :
        (Alive(w) /\ hist[w].burst /\ hist[w].fired >= 1)
            => (hist[w].fired = 1 /\ hist[w].got = hist[w].calls)

\* C2: Independent wrappers.  A call of wrapper a leaves the pending firing
\* of every other wrapper b of the same owner in place, with its countdown,
\* and invokes nobody's func.
C2_IndependentWrappers ==
    [][\A a, b \in 1..Len(wrappers) :
          (a # b /\ wrappers[a].context = wrappers[b].context /\ CallOf(a))
              => /\ Pending(b, timers) \subseteq Pending(b, timers')
                 /\ \A t \in Pending(b, timers) :
                        timers'[t].remaining = timers[t].remaining
                 /\ hist'[b].fired = hist[b].fired]_vars

\* C3: Key uniqueness.  No two wrappers of one owner carry the same timer
\* property key.
C3_KeyUniqueness ==
    \A i, j \in 1..Len(wrappers) :
        (i # j /\ wrappers[i].context = wrappers[j].context)
            => wrappers[i].timerPropertyName # wrappers[j].timerPropertyName

\* C4: No synchronous or early invocation.  A wrapper call invokes no func;
\* func of a wrapper is invoked only once durationMs have passed since that
\* wrapper's last call; a call on a live owner leaves the wrapper's timer
\* running with durationMs to go.
C4_NoSyncNoEarly ==
    [][\A w \in 1..Len(wrappers) :
          /\ CallOf(w) => TotalFired(hist') = TotalFired(hist)
          /\ FiringOf(w) => hist[w].left <= 0
          /\ (CallOf(w) /\ Alive(w))
                => /\ timers'[TimerFor(w)].active
                   /\ timers'[TimerFor(w)].remaining = wrappers[w].durationMs]_vars

\* C5: Quiescence.  When a wrapper is called again more than durationMs
\* after its previous call (live owner, no expiry left undelivered), func
\* has been invoked exactly once for the previous call, with that call's
\* argument.
C5_Quiescence ==
    [][\A w \in 1..Len(wrappers) :
          (CallOf(w) /\ Alive(w) /\ LoopIdle /\ hist[w].calls >= 1
             /\ hist[w].left = -1)
              => (hist[w].firedThis = 1 /\ hist[w].got = hist[w].calls)]_vars

\* C6: Owner teardown cancels.  func is invoked only while the owner given
\* to debounce() is alive: no pending call fires after its destruction, and
\* nothing else does.
C6_NoFiringAfterOwnerDestroyed ==
    [][\A w \in 1..Len(wrappers) : FiringOf(w) => Alive(w)]_vars

\* C7: Negative duration rejected.  No wrapper has a negative durationMs (or
\* a null owner) and no timer a negative interval; debounce() asserts only
\* on a negative durationMs or a null owner.
C7_NegativeDurationRejected ==
    /\ \A w \in 1..Len(wrappers) :
          wrappers[w].durationMs >= 0 /\ wrappers[w].context # NullPtr
    /\ \A t \in 1..Len(timers) : timers[t].interval >= 0
    /\ crashed.why = "assert duration"
          => (crashed.durationMs < 0 /\ crashed.context # NullPtr)
    /\ crashed.why = "assert context" => crashed.context = NullPtr

\* A debounce() call with a negative duration has been rejected.
C7_Witness ==
    crashed.why = "assert duration" /\ crashed.durationMs < 0

\* C8: Construction has no side effects.  A debounce() call leaves the
\* timers, the property bags and the owners as they are; a timer comes into
\* existence only in a call of a wrapper that finds none under its key, on
\* an owner that was never destroyed only in the wrapper's first call.
C8_ConstructionNoSideEffects ==
    [][/\ Len(wrappers') > Len(wrappers)
             => (timers' = timers /\ props' = props /\ owner' = owner)
       /\ Len(timers') > Len(timers)
             => \E w \in 1..Len(wrappers) :
                   /\ CallOf(w)
                   /\ Property(wrappers[w].context,
                               wrappers[w].timerPropertyName) = NoTimer
                   /\ Len(timers') = Len(timers) + 1
                   /\ timers'[Len(timers')].creator = w
                   /\ Alive(w) => hist[w].calls = 0]_vars

\* A wrapper was made by debounce() while a timer existed, and that timer is
\* running.
C8_Witness ==
    \E w \in 1..Len(wrappers) :
        hist[w].born /\ hist[w].calls = 0 /\ timers[1].active

\* C9: One timer per wrapper.  Once a wrapper has been called on a live
\* owner, exactly one timer has been created by its calls, and it is the one
\* stored under the wrapper's key.
C9_OneTimerPerWrapper ==
    \A w \in 1..Len(wrappers) :
        (Alive(w) /\ hist[w].calls >= 1)
            => /\ Cardinality({t \in 1..Len(timers) : timers[t].creator = w}) = 1
               /\ Property(wrappers[w].context,
                           wrappers[w].timerPropertyName) \in 1..Len(timers)
               /\ timers[Property(wrappers[w].context,
                                  wrappers[w].timerPropertyName)].creator = w

\* C10: At most one scheduled action.  Every timer has at most one action
\* connected; after a call of a wrapper its timer carries exactly the action
\* of that call; one step invokes func at most once.
C10_AtMostOneAction ==
    [][/\ \A t \in 1..Len(timers') : Len(timers'[t].conns) <= 1
       /\ TotalFired(hist') <= TotalFired(hist) + 1
       /\ \A w \in 1..Len(wrappers) :
             (CallOf(w) /\ owner[wrappers[w].context] # "destroyed")
                => /\ Len(timers'[TimerFor(w)].conns) = 1
                   /\ timers'[TimerFor(w)].conns[1].func = w
                   /\ timers'[TimerFor(w)].conns[1].args.call = hist'[w].calls]_vars

\* A second call of a wrapper has replaced the action of its first call,
\* which had not fired.
C10_Witness ==
    \E t \in 1..Len(timers) :
        /\ timers[t].active /\ Len(timers[t].conns) = 1
        /\ timers[t].conns[1].args.call = 2
        /\ hist[timers[t].conns[1].func].fired = 0
        /\ Alive(timers[t].conns[1].func)

\* C11 (as stated): Action cleared on fire.  A timer that is not running
\* (the Idle state) has no action and no argument tuple attached.
C11_ActionClearedOnFire ==
    \A t \in 1..Len(timers) :
        (~timers[t].deleted /\ ~timers[t].active) => timers[t].conns = <<>>

\* C11 (amended): the expiry stops the timer and leaves its action, with the
\* argument tuple, connected: a stopped timer carries exactly one action,
\* the one it carried when it expired, and func is invoked only by the
\* expiry of a running timer, which then stays stopped unless func itself
\* called the wrapper.
C11_ActionKeptUntilReplaced ==
    [][/\ \A t \in 1..Len(timers') :
             (~timers'[t].deleted /\ ~timers'[t].active)
                => Len(timers'[t].conns) = 1
       /\ \A t \in 1..Len(timers) :
             (t <= Len(timers') /\ timers[t].active /\ ~timers'[t].active
                /\ ~timers'[t].deleted)
                => timers'[t].conns = timers[t].conns
       /\ TotalFired(hist') > TotalFired(hist)
             => \E t \in 1..Len(timers) :
                   /\ timers[t].active /\ timers[t].remaining = 0
                   /\ timers'[t].active
                         => TotalCalls(hist') > TotalCalls(hist)]_vars

\* A timer has fired and is stopped, its action still connected.
C11_Witness ==
    \E t \in 1..Len(timers) :
        /\ ~timers[t].deleted /\ ~timers[t].active
        /\ Len(timers[t].conns) = 1
        /\ hist[timers[t].conns[1].func].fired >= 1

\* The state of wrapper w in the sense of the specification, read from the
\* properties ps and the timers ts: Pending when the timer stored under
\* the wrapper's key on its owner is running, Idle otherwise.
StateOf(w, ps, ts) ==
    IF \E p \in ps[wrappers[w].context] :
           /\ p.name = wrappers[w].timerPropertyName
           /\ ts[p.value].active
    THEN "Pending" ELSE "Idle"

\* C12: Per-wrapper state machine.  While the owner of wrapper w lives: a
\* call of w leads to Pending; a step from Pending to Idle invokes w's func
\* exactly once; and func is invoked only in such a step, never while w is
\* Idle.
C12_StateMachine ==
    [][\A w \in 1..Len(wrappers) :
          (Len(wrappers') = Len(wrappers) /\ Alive(w) /\ owner' = owner)
             => /\ CallOf(w) => StateOf(w, props', timers') = "Pending"
                /\ (/\ StateOf(w, props, timers) = "Pending"
                    /\ StateOf(w, props', timers') = "Idle")
                      => hist'[w].fired = hist[w].fired + 1
                /\ FiringOf(w)
                      => /\ StateOf(w, props, timers) = "Pending"
                         /\ StateOf(w, props', timers') = "Idle"
                         /\ hist'[w].fired = hist[w].fired + 1]_vars

\* C13: Captured arguments are owned by the scheduled action.  Whenever
\* func of a wrapper is invoked it receives the value the argument had at
\* the last call of that wrapper, whatever the caller did to the argument
\* object in between.
C13_ArgumentsOwned ==
    [][\A w \in 1..Len(wrappers) :
          FiringOf(w) => hist'[w].got = hist[w].calls]_vars

\* C14: Timer interval matches the wrapper.  A call of wrapper w on a live
\* owner starts a single-shot timer whose interval is w's durationMs, and
\* no step changes the interval of an existing timer.
C14_IntervalMatchesWrapper ==
    [][/\ \A w \in 1..Len(wrappers) :
             (CallOf(w) /\ Alive(w))
                => /\ timers'[TimerFor(w)].singleShot
                   /\ timers'[TimerFor(w)].active
                   /\ timers'[TimerFor(w)].interval = wrappers[w].durationMs
       /\ \A t \in 1..Len(timers) :
             (t <= Len(timers') /\ ~timers'[t].deleted)
                => timers'[t].interval = timers[t].interval]_vars

\* C16: No fabricated or duplicated delivery.  For every wrapper the value
\* func last received is the argument of one of the calls made so far, the
\* tuple of the last call has been delivered at most once, and func has
\* been invoked at most as often as the wrapper was called.
C16_NoFabricatedDelivery ==
    \A w \in 1..Len(wrappers) :
        /\ hist[w].fired <= hist[w].calls
        /\ hist[w].firedThis <= 1
        /\ hist[w].fired >= 1 => hist[w].got \in 1..hist[w].calls

\* C15: Eventual firing after quiet.  Once wrapper w has been called k
\* times on a live owner, func is eventually invoked with the tuple of that
\* call unless w is called again or the owner stops living; and while the
\* calls of w form a stream, each less than durationMs after the previous
\* one and the last less than durationMs ago, func has not been invoked.
C15_EventualFiring ==
    /\ [](\A w \in 1..Len(wrappers) :
             (Alive(w) /\ hist[w].burst /\ hist[w].left > 0)
                => hist[w].fired = 0)
    /\ \A w \in 1..MaxOps, k \in 1..MaxOps :
          (w <= Len(wrappers) /\ hist[w].calls = k /\ Alive(w))
             ~> \/ w > Len(wrappers)
                \/ ~Alive(w)
                \/ hist[w].calls > k
                \/ hist[w].firedThis >= 1

\* C17: Copies of a wrapper debounce jointly.  A copy carries the key,
\* owner and func of the wrapper; on a live owner a call that comes through
\* another copy than the pending one replaces the pending action on the
\* same timer; and the firing that ends a burst of two or more calls,
\* which came through different copies, is the only one of the burst and
\* receives the argument of the last call.
C17_CopiesDebounceJointly ==
    [][\A w \in 1..Len(wrappers) :
          (Len(wrappers') = Len(wrappers) /\ Alive(w) /\ owner' = owner)
             => /\ CopyOf(wrappers[w]) = wrappers[w]
                /\ (/\ CallOf(w)
                    /\ Via(hist'[w].calls) # Via(hist[w].calls)
                    /\ Pending(w, timers) # {})
                      => /\ Pending(w, timers') = Pending(w, timers)
                         /\ \A t \in Pending(w, timers') :
                               /\ Len(timers'[t].conns) = 1
                               /\ timers'[t].conns[1].args.call = hist'[w].calls
                /\ (FiringOf(w) /\ hist[w].burst /\ hist[w].calls >= 2)
                      => /\ hist'[w].fired = 1
                         /\ hist'[w].got = hist[w].calls]_vars

\* C18: Re-entrant call during firing.  When func of wrapper w, invoked by
\* the timer, calls w on a live owner, that step invokes func once and not
\* again, and leaves w Pending on a timer that carries the new arguments
\* and has the whole durationMs to run; the next invocation of func is the
\* further firing and receives those arguments.
C18_ReentrantCall ==
    [][\A w \in 1..Len(wrappers) :
          (Len(wrappers') = Len(wrappers) /\ Alive(w) /\ owner' = owner)
             => /\ (CallOf(w) /\ FiringOf(w))
                      => /\ hist'[w].fired = hist[w].fired + 1
                         /\ hist'[w].reent
                         /\ StateOf(w, props', timers') = "Pending"
                         /\ \A t \in Pending(w, timers') :
                               /\ timers'[t].remaining = wrappers[w].durationMs
                               /\ Len(timers'[t].conns) = 1
                               /\ timers'[t].conns[1].args.val = hist'[w].calls
                /\ (FiringOf(w) /\ hist[w].reent)
                      => /\ hist'[w].fired = hist[w].fired + 1
                         /\ hist'[w].got = hist[w].calls]_vars

====
